---------------------------- MODULE Spec2Model ----------------------------
(***************************************************************************)
(* A model of thorstenhuhn/stacks: the throttling retry wrapper            *)
(* (stacks/aws.py), the document splitter gen_template, the stack change   *)
(* driver create_stack, delete_stack and the event tailer print_events     *)
(* (stacks/cf.py), and the subcommands of main (stacks/main.py), against   *)
(* an abstract CloudFormation service.                                     *)
(***************************************************************************)
EXTENDS Integers, Sequences, FiniteSets, TLC

(***************************************************************************)
(* Values shared by all components.                                        *)
(***************************************************************************)

\* Python's None.
None == "None"

\* botocore ClientError responses the service can answer with: the error
\* code and the message as a sequence of words.
ErrThrottling == [Code |-> "Throttling", Message |-> <<"Rate", "exceeded">>]

ErrRequestLimit ==
    [Code |-> "RequestLimitExceeded", Message |-> <<"Request", "limit", "exceeded">>]

ErrAccessDenied ==
    [Code |-> "AccessDenied", Message |-> <<"User", "is", "not", "authorized">>]

ErrAlreadyExists ==
    [Code |-> "AlreadyExistsException",
     Message |-> <<"Stack", "[name]", "already", "exists">>]

ErrNoUpdates ==
    [Code |-> "ValidationError",
     Message |-> <<"No", "updates", "are", "to", "be", "performed", ".">>]

ErrDoesNotExist ==
    [Code |-> "ValidationError",
     Message |-> <<"Stack", "[name]", "does", "not", "exist">>]

\* Errors any call of the service may answer with, whatever the request.
TransientErrors == {ErrThrottling, ErrRequestLimit, ErrAccessDenied}

\* Those of them the stack requests of this model are answered with.
RequestErrors == {ErrThrottling, ErrAccessDenied}

ClientErrors ==
    TransientErrors \cup {ErrAlreadyExists, ErrNoUpdates, ErrDoesNotExist}

NoError == [Code |-> None, Message |-> << >>]

VARIABLES
    \* ---- throttling_retry.retry_call (aws.py)
    rt_pc,        \* "idle" | "call" | "returned" | "raised"
    rt_func,      \* the wrapped function: "func" | "get_stack_status"
    rt_args,      \* the positional arguments retry_call was called with
    rt_kwargs,    \* the keyword arguments retry_call was called with
    invoked,      \* the arguments of each invocation of the wrapped function
    retries,      \* the local counter of retry_call
    sleeps,       \* the durations passed to time.sleep, in order
    attempts,     \* the outcome of each invocation of the wrapped function
    retval,       \* the value retry_call returned
    rt_err        \* the error retry_call raised

retryVars ==
    <<rt_pc, rt_func, rt_args, rt_kwargs, invoked, retries, sleeps, attempts,
      retval, rt_err>>

VARIABLES
    \* ---- the remote service
    stacks,       \* what describe_stacks lists: records StackName, StackStatus, Body
    calls,        \* the create_stack / update_stack requests received, in order
    uploads,      \* the objects put into the templates bucket: records key, Body
    queries,      \* how many times the status of a stack was asked for
    stack_events  \* the events of the stack, in the order they were emitted

remoteVars == <<stacks, calls, uploads, queries, stack_events>>

VARIABLES
    \* ---- create_stack (cf.py 168-243)
    args,             \* the parameters stack_name, update, dry, create_on_update
    pc,               \* the position in create_stack
    tpl,              \* local tpl: the rendered body
    metadata,         \* local metadata: the first document, if there are two
    tags,             \* local tags
    stack_name,       \* local stack_name, after name resolution
    disable_rollback, \* local disable_rollback
    tpl_url,          \* local tpl_url
    caught,           \* the ClientError an except clause caught (232, 275, 295)
    exit_code,        \* the argument of sys.exit, once pc = "exit"
    ret,              \* the value create_stack returned, once pc = "returned"
    runs              \* how many times create_stack has been invoked

driverVars ==
    <<args, pc, tpl, metadata, tags, stack_name, disable_rollback, tpl_url,
      caught, exit_code, ret, runs>>

VARIABLES
    \* ---- print_events (cf.py 309-340)
    targs,          \* the parameters stack_name, follow, lines, from_timestamp
    t_pc,           \* the position in print_events
    events,         \* local events: the page get_events returned, sorted
    next_token,     \* local next_token
    status,         \* local status
    events_display, \* local events_display
    seen_ids,       \* local seen_ids
    printed,        \* the rows printed so far, in order
    t_iter,         \* what the last pass of the follow loop saw and did
    t_waited,       \* whether some pass of the loop slept
    t_ret,          \* the value print_events returned
    t_exit          \* the argument of sys.exit, once t_pc = "exit"

tailVars ==
    <<targs, t_pc, events, next_token, status, events_display, seen_ids,
      printed, t_iter, t_waited, t_ret, t_exit>>

VARIABLES
    \* ---- main (main.py 109-138) and delete_stack (cf.py 260-283)
    m_args,     \* the command line: subcommand, name, events_follow, dry_run, yes
    m_pc,       \* the position in main
    m_exit,     \* the exit status of the process, once m_pc = "exit"
    response,   \* local response of delete_stack
    deletes,    \* the delete_stack requests the service received, in order
    \* ---- gen_template (cf.py 39-58)
    rendered,   \* the rendered text: whether it parses, and its documents
    g_pc,       \* the position in gen_template
    g_out,      \* the pair gen_template returned
    tpl_file,   \* the template: the names it references, the text it renders to
    config,     \* the keys of the config mapping
    render_calls  \* how many times tpl.render(config) has been executed

cliVars ==
    <<m_args, m_pc, m_exit, response, deletes, rendered, g_pc, g_out,
      tpl_file, config, render_calls>>

vars == <<retryVars, remoteVars, driverVars, tailVars, cliVars>>

(***************************************************************************)
(* throttling_retry (aws.py 5-21)                                          *)
(***************************************************************************)

\* Values the generic wrapped function returns.
FuncValues == {"v1", "v2"}

Ok(v) == [ok |-> TRUE, val |-> v, err |-> NoError]

Fail(e) == [ok |-> FALSE, val |-> None, err |-> e]

\* aws.py 14: the two error codes that denote throttling.
IsAnyCode(code) == TRUE

IsThrottlingCode(code) == code = "Throttling" \/ code = "RequestLimitExceeded"

\* aws.py 14: the condition of the retry branch.
ShouldRetryBelow3(err, n) == IsThrottlingCode(err.Code) /\ n < 3

ShouldRetry(err, n) == IsThrottlingCode(err.Code) /\ n <= 3

\* aws.py 15: sleep = 3 * (2**retries)
BackoffLinear(n) == 3 * (n + 1)

Backoff(n) == 3 * (2 ^ n)

\* Keyword arguments: a set of key and value pairs.
NoKwargs == {}

Kwargs == {NoKwargs, {[key |-> "NextToken", value |-> "t1"]}}

\* aws.py 11: func(*args): the wrapped function gets the positional
\* arguments; **kwargs is not passed on.
FuncCall(a, kw) == [args |-> a, kwargs |-> NoKwargs]

\* What one invocation of the wrapped function can produce.
FuncOutcomes ==
    {Ok(v) : v \in FuncValues} \cup {Fail(e) : e \in TransientErrors}

\* aws.py 9-20: one pass of the while loop: invoke the function, return its
\* value, or on a ClientError either sleep and count, or re-raise.
retry_step(outcome) ==
    /\ rt_pc = "call"
    /\ attempts' = Append(attempts, outcome)
    /\ invoked' = Append(invoked, FuncCall(rt_args, rt_kwargs))
    /\ IF outcome.ok
       THEN /\ rt_pc' = "returned"
            /\ retval' = outcome.val
            /\ UNCHANGED <<retries, sleeps, rt_err>>
       ELSE IF ShouldRetry(outcome.err, retries)
       THEN /\ sleeps' = Append(sleeps, Backoff(retries))
            /\ retries' = retries + 1
            /\ UNCHANGED <<rt_pc, retval, rt_err>>
       ELSE /\ rt_pc' = "raised"
            /\ rt_err' = outcome.err
            /\ UNCHANGED <<retries, sleeps, retval>>
    /\ UNCHANGED <<rt_func, rt_args, rt_kwargs>>

\* aws.py 7-8: a call of the decorated function: retries = 0.  cf.py 318
\* and 364 call get_stack_status with positional arguments only.
RetryEntry(f, a) ==
    /\ rt_pc' = "call"
    /\ rt_func' = f
    /\ rt_args' = a
    /\ rt_kwargs' = NoKwargs
    /\ invoked' = << >>
    /\ retries' = 0
    /\ sleeps' = << >>
    /\ attempts' = << >>
    /\ retval' = None
    /\ rt_err' = NoError

\* retry_call has returned or raised: its frame is gone.
RetryExit ==
    /\ rt_pc' = "idle"
    /\ rt_func' = None
    /\ rt_args' = << >>
    /\ rt_kwargs' = NoKwargs
    /\ invoked' = << >>
    /\ retries' = 0
    /\ sleeps' = << >>
    /\ attempts' = << >>
    /\ retval' = None
    /\ rt_err' = NoError

RetryIdle ==
    /\ rt_pc = "idle"
    /\ rt_func = None
    /\ rt_args = << >>
    /\ rt_kwargs = NoKwargs
    /\ invoked = << >>
    /\ retries = 0
    /\ sleeps = << >>
    /\ attempts = << >>
    /\ retval = None
    /\ rt_err = NoError

\* The wrapper around a generic function.
retry_call ==
    /\ rt_func = "func"
    /\ \E outcome \in FuncOutcomes : retry_step(outcome)

(***************************************************************************)
(* The remote service                                                      *)
(***************************************************************************)

\* The longest list of stacks the service holds at the start.
MaxStacks == 1

StackNames == {"a", "b"}

\* The rendered bodies gen_template can produce.
Bodies == {"b1", "b2"}

\* What a stack's template is before this program submitted one.
OldBody == "old"

InitialStacks ==
    UNION {[1..n -> [StackName : StackNames,
                     StackStatus : {"CREATE_COMPLETE", "DELETE_COMPLETE"},
                     Body : {OldBody}]] : n \in 0..MaxStacks}

\* The service's own notion of a live stack: a record of that name that is
\* not a DELETE_COMPLETE tombstone.
RemoteExists(ss, name) ==
    \E i \in DOMAIN ss :
        ss[i].StackName = name /\ ss[i].StackStatus # "DELETE_COMPLETE"

LiveIndex(ss, name) ==
    CHOOSE i \in DOMAIN ss :
        ss[i].StackName = name /\ ss[i].StackStatus # "DELETE_COMPLETE"

\* cf.py 343-355: get_stack_status, over the concatenated pages of
\* describe_stacks: the first record of that name that is not DELETE_COMPLETE.
GetStackStatusNoFilter(ss, name) ==
    IF \E i \in DOMAIN ss : ss[i].StackName = name
    THEN ss[CHOOSE i \in DOMAIN ss :
                /\ ss[i].StackName = name
                /\ \A j \in 1..(i - 1) : ss[j].StackName # name].StackStatus
    ELSE None

GetStackStatus(ss, name) ==
    LET hits == {i \in DOMAIN ss : /\ ss[i].StackName = name
                                   /\ ss[i].StackStatus # "DELETE_COMPLETE"}
    IN  IF hits = {} THEN None
        ELSE ss[CHOOSE i \in hits : \A j \in hits : i <= j].StackStatus

\* Errors describe_stacks answers with.
DescribeErrors == RequestErrors

\* cf.py 343: get_stack_status runs under throttling_retry: one invocation.
get_stack_status ==
    /\ rt_func = "get_stack_status"
    /\ \E outcome \in {Ok(GetStackStatus(stacks, rt_args[2]))}
                         \cup {Fail(e) : e \in DescribeErrors} :
           retry_step(outcome)

\* The answer of the service to create_stack.
CreateAnswers(ss, name) ==
    IF RemoteExists(ss, name)
    THEN {ErrAlreadyExists} \cup RequestErrors
    ELSE {NoError} \cup RequestErrors

\* The answer of the service to update_stack.
UpdateAnswers(ss, name, body) ==
    IF ~RemoteExists(ss, name)
    THEN {ErrDoesNotExist} \cup RequestErrors
    ELSE IF ss[LiveIndex(ss, name)].Body = body
    THEN {ErrNoUpdates} \cup RequestErrors
    ELSE {NoError} \cup RequestErrors

\* The stacks after a successful create_stack / update_stack.
Created(ss, name, body) ==
    Append(ss, [StackName |-> name, StackStatus |-> "CREATE_IN_PROGRESS",
                Body |-> body])

Updated(ss, name, body) ==
    [ss EXCEPT ![LiveIndex(ss, name)] =
        [StackName |-> name, StackStatus |-> "UPDATE_IN_PROGRESS", Body |-> body]]

\* The stacks once the operations in progress have finished.
Settled(ss) ==
    [i \in DOMAIN ss |->
        IF ss[i].StackStatus = "CREATE_IN_PROGRESS"
        THEN [ss[i] EXCEPT !.StackStatus = "CREATE_COMPLETE"]
        ELSE IF ss[i].StackStatus = "UPDATE_IN_PROGRESS"
        THEN [ss[i] EXCEPT !.StackStatus = "UPDATE_COMPLETE"]
        ELSE ss[i]]

(***************************************************************************)
(* create_stack (cf.py 168-243)                                            *)
(***************************************************************************)

\* The longest tag list of a metadata document.
MaxTags == 2

\* cf.py 206: the inline limit of the service.
InlineLimit == 51200

\* config['env'] and the templates bucket '{env}-stacks-{region}'.
ConfigEnv == "dev"

Bucket == "dev-stacks-region"

\* cf.py 194: len(tpl).
TplLen(b) == IF b = "b1" THEN 51200 ELSE 51201

\* cf.py 206: tpl_size > 51200: the template goes to the bucket.
OffloadAtLimit(size) == size >= InlineLimit

Offload(size) == size > InlineLimit

\* cf.py 255-257: _calc_md5, as a table over the bodies.
Md5(b) == IF b = "b1" THEN "d41d" ELSE "9e10"

\* The {key, value} entries a metadata document can list under tags.
TagUniverse ==
    {[key |-> "Env", value |-> "prod"], [key |-> "MD5Sum", value |-> "bogus"],
     [key |-> "Test", value |-> "t1"], [key |-> "Test", value |-> "t2"]}

TagLists == UNION {[1..n -> TagUniverse] : n \in 0..MaxTags}

\* gen_template returned None for the metadata: the stream held one document.
NoMetadata ==
    [present |-> FALSE, keys |-> {}, name |-> None, disable_rollback |-> None,
     tags |-> << >>]

\* The metadata documents: a dict with any of the keys name, disable_rollback
\* and tags.
Metadatas ==
    {NoMetadata} \cup
    {[present |-> TRUE, keys |-> ks,
      name |-> IF "name" \in ks THEN "b" ELSE None,
      disable_rollback |-> IF "disable_rollback" \in ks THEN d ELSE None,
      tags |-> IF "tags" \in ks THEN ts ELSE << >>] :
        ks \in SUBSET {"name", "disable_rollback", "tags"},
        d \in {"True", "False"}, ts \in TagLists}

\* Python truth of `metadata`: None and the empty dict are false.
Truthy(m) == m.present /\ m.keys # {}

\* Python truth of a name: None and the empty string are false.
NameGivenNotNone(n) == n # None

NameGiven(n) == n # None /\ n # ""

\* dict.get(key): None when the key is missing.
Get(m, k) == IF k \in m.keys THEN m[k] ELSE None

EmptyDict == [k \in {} |-> ""]

\* cf.py 246-252: _extract_tags: a later entry of a key replaces an earlier.
_extract_tags(m) ==
    LET ts == IF "tags" \in m.keys THEN m.tags ELSE << >>
        last(k) == CHOOSE i \in DOMAIN ts :
                       /\ ts[i].key = k
                       /\ \A j \in DOMAIN ts : ts[j].key = k => j <= i
    IN  [k \in {ts[i].key : i \in DOMAIN ts} |-> ts[last(k)].value]

\* dict.update: d with the entries of e, those of e winning.
DictUpdateKeepOld(d, e) ==
    [k \in DOMAIN d \cup DOMAIN e |-> IF k \in DOMAIN d THEN d[k] ELSE e[k]]

DictUpdate(d, e) ==
    [k \in DOMAIN d \cup DOMAIN e |-> IF k \in DOMAIN e THEN e[k] ELSE d[k]]

\* cf.py 173-176: default_tags.
DefaultTags(body) == ("Env" :> ConfigEnv) @@ ("MD5Sum" :> Md5(body))

\* cf.py 178-186: the tags of the request.
ResolveTags(m, body) ==
    IF Truthy(m) THEN DictUpdate(_extract_tags(m), DefaultTags(body))
    ELSE DefaultTags(body)

\* cf.py 178-190: the name of the stack: the argument, else the metadata's.
ResolveNameMetadataFirst(argName, m) ==
    LET name_from_metadata == IF Truthy(m) THEN Get(m, "name") ELSE None
    IN  IF NameGiven(name_from_metadata) THEN name_from_metadata ELSE argName

ResolveName(argName, m) ==
    LET name_from_metadata == IF Truthy(m) THEN Get(m, "name") ELSE None
    IN  IF NameGiven(argName) THEN argName ELSE name_from_metadata

\* cf.py 82-95: the key and the URL of an offloaded template.
NoUrl == [bucket |-> None, key |-> << >>]

TemplateKey(name, body) == <<ConfigEnv, name, Md5(body)>>

\* cf.py 208, 221: the condition of the first branch.  stack_exists is only
\* evaluated when update and create_on_update hold.
StackOpNoCreateBranch(update, create_on_update, exists) ==
    IF update THEN "update" ELSE "create"

StackOp(update, create_on_update, exists) ==
    IF update /\ create_on_update /\ ~exists THEN "create"
    ELSE IF update THEN "update"
    ELSE "create"

\* cf.py 358-367: stack_exists, from the status get_stack_status returned.
stack_exists(st) == ~(st = "DELETE_COMPLETE" \/ st = None)

\* `needle in message` on the words of the message.
Contains(message, needle) ==
    \E i \in 1..(Len(message) - Len(needle) + 1) :
        SubSeq(message, i, i + Len(needle) - 1) = needle

\* cf.py 234-238: the messages that end the process with exit code 0.
non_error_messages ==
    {<<"No", "updates", "are", "to", "be", "performed">>, <<"already", "exists">>}

ExitCodeOnlyExists(err) ==
    IF Contains(err.Message, <<"already", "exists">>) THEN 0 ELSE 1

ExitCode(err) ==
    IF \E s \in non_error_messages : Contains(err.Message, s) THEN 0 ELSE 1

ArgNames == {None, "", "a"}

\* cf.py 170: gen_template: the rendered body and the metadata document.
gen_template ==
    /\ pc = "start"
    /\ \E b \in Bodies, m \in Metadatas : tpl' = b /\ metadata' = m
    /\ pc' = "rendered"
    /\ UNCHANGED <<args, tags, stack_name, disable_rollback, tpl_url, caught,
                   exit_code, ret, runs>>
    /\ UNCHANGED <<retryVars, remoteVars, tailVars>>
    /\ UNCHANGED cliVars

\* cf.py 190-206: where create_stack goes once the name is resolved: to
\* sys.exit(1) without a name, to the return of the dry run, else on to the
\* upload or to the request.
AfterResolveNoDry(name, dry, size) ==
    IF ~NameGiven(name) THEN "exit"
    ELSE IF Offload(size) THEN "upload"
    ELSE "decide"

AfterResolve(name, dry, size) ==
    IF ~NameGiven(name) THEN "exit"
    ELSE IF dry THEN "returned"
    ELSE IF Offload(size) THEN "upload"
    ELSE "decide"

\* cf.py 201: the dry run returns True.
DryResultNone == None

DryResult == "True"

\* cf.py 172-203: the tags, the name (or sys.exit(1)), the dry run's return.
create_stack_resolve ==
    /\ pc = "rendered"
    /\ tags' = ResolveTags(metadata, tpl)
    /\ disable_rollback' =
          IF Truthy(metadata) THEN Get(metadata, "disable_rollback") ELSE "False"
    /\ stack_name' = ResolveName(args.stack_name, metadata)
    /\ pc' = AfterResolve(stack_name', args.dry, TplLen(tpl))
    /\ exit_code' = IF pc' = "exit" THEN 1 ELSE exit_code
    /\ ret' = IF pc' = "returned" THEN DryResult ELSE ret
    /\ UNCHANGED <<args, tpl, metadata, tpl_url, caught, runs>>
    /\ UNCHANGED <<retryVars, remoteVars, tailVars>>
    /\ UNCHANGED cliVars

\* cf.py 206-207 and 82-95: upload_template puts the body under
\* env/stack_name/md5 and returns the URL; a ClientError of the put is
\* caught at line 232.
upload_template ==
    /\ pc = "upload"
    /\ \/ /\ uploads' = uploads \cup
                 {[key |-> TemplateKey(stack_name, tpl), Body |-> tpl]}
          /\ tpl_url' = [bucket |-> Bucket, key |-> TemplateKey(stack_name, tpl)]
          /\ pc' = "decide"
          /\ UNCHANGED caught
       \/ /\ caught' = ErrAccessDenied
          /\ pc' = "except"
          /\ UNCHANGED <<uploads, tpl_url>>
    /\ UNCHANGED <<args, tpl, metadata, tags, stack_name, disable_rollback,
                   exit_code, ret, runs>>
    /\ UNCHANGED <<retryVars, stacks, calls, queries, stack_events, tailVars>>
    /\ UNCHANGED cliVars

\* cf.py 208, 221: `update and create_on_update and not stack_exists(...)`:
\* the status is queried only when the first two hold.
create_stack_decide ==
    /\ pc = "decide"
    /\ IF args.update /\ args.create_on_update
       THEN /\ pc' = "stack_exists"
            /\ RetryEntry("get_stack_status", <<"client", stack_name>>)
            /\ queries' = queries + 1
       ELSE /\ pc' = "issue"
            /\ UNCHANGED <<retryVars, queries>>
    /\ UNCHANGED <<args, tpl, metadata, tags, stack_name, disable_rollback,
                   tpl_url, caught, exit_code, ret, runs>>
    /\ UNCHANGED <<stacks, calls, uploads, stack_events, tailVars>>
    /\ UNCHANGED cliVars

\* cf.py 364: the status query of stack_exists, under the retry wrapper.
stack_exists_query ==
    /\ pc = "stack_exists"
    /\ rt_pc = "call"
    /\ get_stack_status
    /\ UNCHANGED <<driverVars, remoteVars, tailVars>>
    /\ UNCHANGED cliVars

\* cf.py 232: a ClientError raised by get_stack_status is caught.
stack_exists_raised ==
    /\ pc = "stack_exists"
    /\ rt_pc = "raised"
    /\ caught' = rt_err
    /\ pc' = "except"
    /\ RetryExit
    /\ UNCHANGED <<args, tpl, metadata, tags, stack_name, disable_rollback,
                   tpl_url, exit_code, ret, runs>>
    /\ UNCHANGED <<remoteVars, tailVars>>
    /\ UNCHANGED cliVars

\* The request of cf.py 209-231.  The inline update (226-227) passes no
\* DisableRollback.
Request(op, inline) ==
    [op |-> op, StackName |-> stack_name,
     TemplateBody |-> IF inline THEN tpl ELSE "absent",
     TemplateURL |-> IF inline THEN NoUrl ELSE tpl_url,
     Tags |-> tags, Capabilities |-> <<"CAPABILITY_IAM">>,
     DisableRollback |-> IF inline /\ op = "update" THEN "absent"
                         ELSE disable_rollback,
     existed |-> RemoteExists(stacks, stack_name), run |-> runs]

\* cf.py 208-231: the create_stack or update_stack call and the answer of the
\* service: the stack is created or updated, or a ClientError is raised and
\* caught at line 232.
create_stack_issue ==
    /\ \/ pc = "issue"
       \/ pc = "stack_exists" /\ rt_pc = "returned"
    /\ LET exists == IF pc = "issue" THEN TRUE ELSE stack_exists(retval)
           op == StackOp(args.update, args.create_on_update, exists)
           inline == ~Offload(TplLen(tpl))
           answers == IF op = "create" THEN CreateAnswers(stacks, stack_name)
                      ELSE UpdateAnswers(stacks, stack_name, tpl)
       IN  /\ calls' = Append(calls, Request(op, inline))
           /\ \E answer \in answers :
                 IF answer = NoError
                 THEN /\ stacks' = IF op = "create"
                                   THEN Created(stacks, stack_name, tpl)
                                   ELSE Updated(stacks, stack_name, tpl)
                      /\ pc' = "returned"
                      /\ ret' = stack_name
                      /\ UNCHANGED caught
                 ELSE /\ caught' = answer
                      /\ pc' = "except"
                      /\ UNCHANGED <<stacks, ret>>
    /\ IF pc = "issue" THEN UNCHANGED retryVars ELSE RetryExit
    /\ UNCHANGED <<args, tpl, metadata, tags, stack_name, disable_rollback,
                   tpl_url, exit_code, runs>>
    /\ UNCHANGED <<uploads, queries, stack_events, tailVars>>
    /\ UNCHANGED cliVars

\* cf.py 232-242: the handler of ClientError.
create_stack_except ==
    /\ pc = "except"
    /\ exit_code' = ExitCode(caught)
    /\ pc' = "exit"
    /\ UNCHANGED <<args, tpl, metadata, tags, stack_name, disable_rollback,
                   tpl_url, caught, ret, runs>>
    /\ UNCHANGED <<retryVars, remoteVars, tailVars>>
    /\ UNCHANGED cliVars

\* The operator runs the same command on the same template a second time,
\* once the service has finished what the first run started.
run_again ==
    /\ pc = "returned"
    /\ ~args.dry
    /\ runs = 1
    /\ runs' = runs + 1
    /\ pc' = "rendered"
    /\ stacks' = Settled(stacks)
    /\ tags' = EmptyDict
    /\ stack_name' = args.stack_name
    /\ disable_rollback' = None
    /\ tpl_url' = NoUrl
    /\ caught' = NoError
    /\ exit_code' = 0
    /\ ret' = None
    /\ UNCHANGED <<args, tpl, metadata>>
    /\ UNCHANGED <<retryVars, calls, uploads, queries, stack_events, tailVars>>
    /\ UNCHANGED cliVars

NoToken == << >>

NoIteration ==
    [cursor_none |-> FALSE, in_progress |-> FALSE, slept |-> 0,
     stopped |-> FALSE]

TailIdle ==
    /\ targs = [stack_name |-> None, follow |-> FALSE, lines |-> 0,
                from_timestamp |-> 0]
    /\ t_pc = "idle"
    /\ events = << >>
    /\ next_token = NoToken
    /\ status = None
    /\ events_display = << >>
    /\ seen_ids = {}
    /\ printed = << >>
    /\ t_iter = NoIteration
    /\ t_waited = FALSE
    /\ t_ret = None
    /\ t_exit = 0

NoArgs ==
    [subcommand |-> None, name |-> None, events_follow |-> FALSE,
     dry_run |-> FALSE, create_on_update |-> FALSE, yes |-> FALSE]

NoRendered == [parses |-> FALSE, docs |-> << >>]

NoOutput == [tpl |-> None, metadata |-> None]

NoTemplate == [required |-> {}, text |-> NoRendered]

CliIdle ==
    /\ m_args = NoArgs
    /\ m_pc = "idle"
    /\ m_exit = 0
    /\ response = None
    /\ deletes = << >>
    /\ rendered = NoRendered
    /\ g_pc = "idle"
    /\ g_out = NoOutput
    /\ tpl_file = NoTemplate
    /\ config = {}
    /\ render_calls = 0

DriverIdle ==
    /\ args = [stack_name |-> None, update |-> FALSE, dry |-> FALSE,
               create_on_update |-> FALSE]
    /\ pc = "idle"
    /\ tpl = None
    /\ metadata = NoMetadata
    /\ tags = EmptyDict
    /\ stack_name = None
    /\ disable_rollback = None
    /\ tpl_url = NoUrl
    /\ caught = NoError
    /\ exit_code = 0
    /\ ret = None
    /\ runs = 0

RemoteIdle ==
    /\ stacks = << >>
    /\ calls = << >>
    /\ uploads = {}
    /\ queries = 0
    /\ stack_events = << >>

InitDriver ==
    /\ args \in [stack_name : ArgNames, update : BOOLEAN, dry : BOOLEAN,
                 create_on_update : BOOLEAN]
    /\ pc = "start"
    /\ tpl = None
    /\ metadata = NoMetadata
    /\ tags = EmptyDict
    /\ stack_name = args.stack_name
    /\ disable_rollback = None
    /\ tpl_url = NoUrl
    /\ caught = NoError
    /\ exit_code = 0
    /\ ret = None
    /\ runs = 1
    /\ stacks \in InitialStacks
    /\ calls = << >>
    /\ uploads = {}
    /\ queries = 0
    /\ stack_events = << >>
    /\ RetryIdle
    /\ TailIdle
    /\ CliIdle

NextDriver ==
    \/ gen_template
    \/ create_stack_resolve
    \/ upload_template
    \/ create_stack_decide
    \/ stack_exists_query
    \/ stack_exists_raised
    \/ create_stack_issue
    \/ create_stack_except
    \/ run_again

SpecDriver == InitDriver /\ [][NextDriver]_vars

(***************************************************************************)
(* print_events (cf.py 286-340) and the events of the remote stack         *)
(***************************************************************************)

\* The most events the stack emits.
MaxEvents == 2

\* The most events describe_stack_events returns in one page.
PageSize == 1

\* main.py 121, 130: from_timestamp: 0 by default, else the time at which the
\* operation was started, here after the first tick of the clock.
StartTimes == {0, 2}

\* The largest value of the parameter lines.
MaxLines == 2

\* states.py: the statuses of a stack an operation is still working on.
IN_PROGRESS_STACK_STATES ==
    {"CREATE_IN_PROGRESS", "DELETE_IN_PROGRESS", "ROLLBACK_IN_PROGRESS",
     "UPDATE_IN_PROGRESS", "UPDATE_ROLLBACK_IN_PROGRESS"}

\* The statuses the service moves a stack to from status s.
NextStatuses(s) ==
    IF s = "CREATE_IN_PROGRESS" THEN {"CREATE_COMPLETE", "ROLLBACK_IN_PROGRESS"}
    ELSE IF s = "ROLLBACK_IN_PROGRESS" THEN {"ROLLBACK_COMPLETE"}
    ELSE IF s = "DELETE_IN_PROGRESS" THEN {"DELETE_COMPLETE", "DELETE_FAILED"}
    ELSE IF s = "UPDATE_IN_PROGRESS"
    THEN {"UPDATE_COMPLETE", "UPDATE_ROLLBACK_IN_PROGRESS"}
    ELSE IF s = "UPDATE_ROLLBACK_IN_PROGRESS" THEN {"UPDATE_ROLLBACK_COMPLETE"}
    ELSE {}

\* print_events is still running.
TailRunning == t_pc \in {"get_events", "get_status"}

\* The stack emits an event: a new identifier, and the timestamp of the last
\* event or the next tick of the clock.
remote_emit ==
    /\ TailRunning
    /\ Len(stack_events) < MaxEvents
    /\ \E i \in DOMAIN stacks :
          stacks[i].StackStatus \in IN_PROGRESS_STACK_STATES
    /\ \E ts \in (IF stack_events = << >> THEN {1}
                   ELSE LET last == stack_events[Len(stack_events)].Timestamp
                        IN  {last, last + 1}) :
          /\ stack_events' =
                Append(stack_events,
                       [EventId |-> Len(stack_events) + 1, Timestamp |-> ts])
    /\ UNCHANGED <<stacks, calls, uploads, queries>>
    /\ UNCHANGED <<retryVars, driverVars, tailVars>>
    /\ UNCHANGED cliVars

\* The operation on the stack moves on.
remote_progress ==
    /\ TailRunning
    /\ \E i \in DOMAIN stacks :
          \E s \in NextStatuses(stacks[i].StackStatus) :
              stacks' = [stacks EXCEPT ![i].StackStatus = s]
    /\ UNCHANGED <<calls, uploads, queries, stack_events>>
    /\ UNCHANGED <<retryVars, driverVars, tailVars>>
    /\ UNCHANGED cliVars

\* describe_stack_events: the events newest first, PageSize at a time; the
\* token is the position of the next older event.
EventsPage(log, token) ==
    LET start == IF token = NoToken THEN Len(log) ELSE token[1]
        lo == IF start > PageSize THEN start - PageSize + 1 ELSE 1
    IN  [StackEvents |-> [i \in 1..(start - lo + 1) |-> log[start - i + 1]],
         NextToken |-> IF lo > 1 THEN <<lo - 1>> ELSE NoToken]

\* sorted() is stable: e goes behind the entries whose key is not greater.
InsertByTimestamp(sorted, e) ==
    LET k == Cardinality({i \in DOMAIN sorted :
                            sorted[i].Timestamp <= e.Timestamp})
    IN  SubSeq(sorted, 1, k) \o <<e>> \o SubSeq(sorted, k + 1, Len(sorted))

\* cf.py 304-306: sorted_events: by Timestamp, ascending.
RECURSIVE sorted_events(_)
sorted_events(evs) ==
    IF Len(evs) = 0 THEN << >>
    ELSE InsertByTimestamp(sorted_events(SubSeq(evs, 1, Len(evs) - 1)),
                           evs[Len(evs)])

\* cf.py 320-322: the rows of a pass of the follow loop: the events not seen
\* yet and not before from_timestamp.
FollowRowsNoDedup(evs, seen, cutoff) ==
    SelectSeq(evs, LAMBDA e : e.Timestamp >= cutoff)

FollowRows(evs, seen, cutoff) ==
    SelectSeq(evs, LAMBDA e : e.EventId \notin seen /\ e.Timestamp >= cutoff)

\* cf.py 326: the condition of the break of the follow loop.
FollowBreakAnyToken(st, token) == st \notin IN_PROGRESS_STACK_STATES

FollowBreak(st, token) ==
    st \notin IN_PROGRESS_STACK_STATES /\ token = NoToken

\* cf.py 328: the condition of time.sleep(5), and the seconds slept.
FollowSleep(token) == token = NoToken

FollowSleepSeconds == 5

\* cf.py 334: the condition of the break of the bounded loop.
BoundedBreak(rows, lines, token) == Len(rows) >= lines \/ token = NoToken

\* cf.py 338: events_display[:lines].
FirstRows(rows, lines) ==
    SubSeq(rows, 1, IF lines < Len(rows) THEN lines ELSE Len(rows))

\* cf.py 296-301: the exit code of get_events on a ClientError.
EventsExitCode(err) ==
    IF Contains(err.Message, <<"does", "not", "exist">>) THEN 0 ELSE 1

\* cf.py 317 and 286-301: get_events: a page of events, sorted, and the next
\* token; on a ClientError the process exits.
tail_get_events ==
    /\ t_pc = "get_events"
    /\ \/ /\ RemoteExists(stacks, targs.stack_name)
          /\ LET page == EventsPage(stack_events, next_token)
             IN  /\ events' = sorted_events(page.StackEvents)
                 /\ next_token' = page.NextToken
          /\ t_pc' = "get_status"
          /\ RetryEntry("get_stack_status", <<"client", targs.stack_name>>)
          /\ UNCHANGED <<t_exit, caught>>
       \/ /\ \E e \in (IF RemoteExists(stacks, targs.stack_name)
                       THEN {} ELSE {ErrDoesNotExist}) \cup RequestErrors :
                t_exit' = EventsExitCode(e) /\ caught' = e
          /\ t_pc' = "exit"
          /\ UNCHANGED <<events, next_token, retryVars>>
    /\ UNCHANGED <<targs, status, events_display, seen_ids, printed, t_iter,
                   t_waited, t_ret>>
    /\ UNCHANGED <<args, pc, tpl, metadata, tags, stack_name, disable_rollback,
                   tpl_url, exit_code, ret, runs>>
    /\ UNCHANGED remoteVars
    /\ UNCHANGED cliVars

\* cf.py 318: get_stack_status, under the retry wrapper.
tail_get_status ==
    /\ t_pc = "get_status"
    /\ rt_pc = "call"
    /\ get_stack_status
    /\ UNCHANGED <<remoteVars, driverVars, tailVars>>
    /\ UNCHANGED cliVars

\* cf.py 318: a ClientError raised by get_stack_status is not caught.
tail_status_raised ==
    /\ t_pc = "get_status"
    /\ rt_pc = "raised"
    /\ t_pc' = "raised"
    /\ RetryExit
    /\ UNCHANGED <<targs, events, next_token, status, events_display, seen_ids,
                   printed, t_iter, t_waited, t_ret, t_exit>>
    /\ UNCHANGED <<remoteVars, driverVars>>
    /\ UNCHANGED cliVars

\* cf.py 318-329: the rest of a pass of the follow loop: print the new rows,
\* remember the identifiers of the page, then break, or sleep and go on.
tail_follow ==
    /\ t_pc = "get_status"
    /\ rt_pc = "returned"
    /\ targs.follow
    /\ status' = retval
    /\ events_display' = FollowRows(events, seen_ids, targs.from_timestamp)
    /\ IF Len(events_display') > 0
       THEN /\ printed' = printed \o events_display'
            /\ seen_ids' = seen_ids \cup {events[i].EventId : i \in DOMAIN events}
       ELSE UNCHANGED <<printed, seen_ids>>
    /\ LET stop == FollowBreak(status', next_token)
           sleep == ~stop /\ FollowSleep(next_token)
       IN  /\ IF stop
              THEN t_pc' = "returned" /\ t_ret' = status'
              ELSE t_pc' = "get_events" /\ UNCHANGED t_ret
           /\ t_iter' = [cursor_none |-> next_token = NoToken,
                         in_progress |-> retval \in IN_PROGRESS_STACK_STATES,
                         slept |-> IF sleep THEN FollowSleepSeconds ELSE 0,
                         stopped |-> stop]
           /\ t_waited' = (t_waited \/ sleep)
    /\ RetryExit
    /\ UNCHANGED <<targs, events, next_token, t_exit>>
    /\ UNCHANGED <<remoteVars, driverVars>>
    /\ UNCHANGED cliVars

\* cf.py 318, 330-340: the rest of a pass of the bounded loop: add the page
\* to events_display; at the break print events_display[:lines].
tail_bounded ==
    /\ t_pc = "get_status"
    /\ rt_pc = "returned"
    /\ ~targs.follow
    /\ status' = retval
    /\ events_display' = events_display \o events
    /\ IF BoundedBreak(events_display', targs.lines, next_token)
       THEN /\ printed' = FirstRows(events_display', targs.lines)
            /\ t_pc' = "returned"
            /\ t_ret' = status'
       ELSE /\ t_pc' = "get_events"
            /\ UNCHANGED <<printed, t_ret>>
    /\ RetryExit
    /\ UNCHANGED <<targs, events, next_token, seen_ids, t_iter, t_waited, t_exit>>
    /\ UNCHANGED <<remoteVars, driverVars>>
    /\ UNCHANGED cliVars

\* main.py 117, 125, 133, 138: the events subcommand passes follow and lines
\* and leaves from_timestamp at 0; create, update and delete follow with the
\* default lines and the time of their start.
TailArgs ==
    [stack_name : {"a"}, follow : BOOLEAN, lines : 1..MaxLines,
     from_timestamp : {0}]
    \cup [stack_name : {"a"}, follow : {TRUE}, lines : {MaxLines},
          from_timestamp : StartTimes \ {0}]

InitTail ==
    /\ targs \in TailArgs
    /\ t_pc = "get_events"
    /\ events = << >>
    /\ next_token = NoToken
    /\ status = None
    /\ events_display = << >>
    /\ seen_ids = {}
    /\ printed = << >>
    /\ t_iter = NoIteration
    /\ t_waited = FALSE
    /\ t_ret = None
    /\ t_exit = 0
    /\ stacks \in {<< >>} \cup
          {<<[StackName |-> "a", StackStatus |-> s, Body |-> OldBody]>> :
              s \in {"CREATE_IN_PROGRESS", "DELETE_IN_PROGRESS"}}
    /\ calls = << >>
    /\ uploads = {}
    /\ queries = 0
    /\ stack_events = << >>
    /\ RetryIdle
    /\ DriverIdle
    /\ CliIdle

\* The steps of print_events.
TailStep ==
    \/ tail_get_events
    \/ tail_get_status
    \/ tail_status_raised
    \/ tail_follow
    \/ tail_bounded

NextTail ==
    \/ remote_emit
    \/ remote_progress
    \/ TailStep

SpecTail == InitTail /\ [][NextTail]_vars

\* The process keeps running: a step of print_events that can be taken is taken.
LiveTail == SpecTail /\ WF_vars(TailStep)

InitRetry ==
    /\ rt_pc = "call"
    /\ rt_func = "func"
    /\ rt_args \in {<<a>> : a \in FuncValues}
    /\ rt_kwargs \in Kwargs
    /\ invoked = << >>
    /\ retries = 0
    /\ sleeps = << >>
    /\ attempts = << >>
    /\ retval = None
    /\ rt_err = NoError
    /\ DriverIdle
    /\ RemoteIdle
    /\ TailIdle
    /\ CliIdle

NextRetry ==
    retry_call /\ UNCHANGED <<remoteVars, driverVars, tailVars, cliVars>>

SpecRetry == InitRetry /\ [][NextRetry]_vars

(***************************************************************************)
(* main (main.py 109-138) and delete_stack (cf.py 260-283)                 *)
(***************************************************************************)

\* states.py: the statuses of a failed operation and of a rolled back one.
FAILED_STACK_STATES ==
    {"CREATE_FAILED", "DELETE_FAILED", "ROLLBACK_FAILED", "UPDATE_ROLLBACK_FAILED"}

ROLLBACK_STACK_STATES == {"ROLLBACK_COMPLETE", "UPDATE_ROLLBACK_COMPLETE"}

\* cf.py 30: the answers that confirm a deletion.
YESWithEmpty == {"y", "Y", "yes", "YES", "Yes", ""}

YES == {"y", "Y", "yes", "YES", "Yes"}

\* What the operator can type at the prompt 'Are you sure? [y/N] '.
Answers == {"y", "Y", "yes", "YES", "Yes", "", "n", "no", "yEs"}

\* The answer of the service to delete_stack.
DeleteAnswers(ss, name) ==
    IF RemoteExists(ss, name) THEN {NoError} \cup RequestErrors
    ELSE {NoError, ErrDoesNotExist} \cup RequestErrors

\* cf.py 275-281: the exit code of delete_stack on a ClientError.
DeleteExitCodeAlwaysFatal(err) == 1

DeleteExitCode(err) ==
    IF Contains(err.Message, <<"does", "not", "exist">>) THEN 0 ELSE 1

\* main.py 118-119, 126-127, 134-135: the exit status once print_events has
\* returned stack_status: create and update look at the failed and the
\* rollback statuses, delete at the failed ones, events at none.
MainExitCode(subcommand, stack_status) ==
    IF subcommand \in {"create", "update"}
    THEN IF stack_status \in FAILED_STACK_STATES \cup ROLLBACK_STACK_STATES
         THEN 1 ELSE 0
    ELSE IF subcommand = "delete"
    THEN IF stack_status \in FAILED_STACK_STATES THEN 1 ELSE 0
    ELSE 0

\* The command lines: dry_run and create_on_update belong to create and
\* update, yes to delete.
MainArgs ==
    {a \in [subcommand : {"create", "update", "delete", "events"},
            name : {"a"}, events_follow : BOOLEAN, dry_run : BOOLEAN,
            create_on_update : BOOLEAN, yes : BOOLEAN] :
        /\ a.dry_run => a.subcommand \in {"create", "update"}
        /\ a.create_on_update => a.subcommand = "update"
        /\ a.yes => a.subcommand = "delete"}

\* main.py 114-127: cf.create_stack as main sees it: the dry run returns, the
\* request chosen by StackOp is answered, and create_stack returns the name
\* or leaves through sys.exit; the template, its tags and its transport are
\* those of SpecDriver and are left out here.  Without events_follow main
\* ends after the return.
main_create_stack ==
    /\ m_pc = "start"
    /\ m_args.subcommand \in {"create", "update"}
    /\ IF m_args.dry_run
       THEN m_pc' = "exit" /\ m_exit' = 0 /\ UNCHANGED stacks
       ELSE LET name == m_args.name
                op == StackOp(m_args.subcommand = "update",
                              m_args.create_on_update,
                              RemoteExists(stacks, name))
                answers == IF op = "create" THEN CreateAnswers(stacks, name)
                           ELSE UpdateAnswers(stacks, name, "b1")
            IN  \E answer \in answers :
                   IF answer = NoError
                   THEN /\ stacks' = IF op = "create"
                                     THEN Created(stacks, name, "b1")
                                     ELSE Updated(stacks, name, "b1")
                        /\ m_pc' = IF m_args.events_follow
                                   THEN "print_events" ELSE "exit"
                        /\ m_exit' = 0
                   ELSE /\ m_pc' = "exit"
                        /\ m_exit' = ExitCode(answer)
                        /\ UNCHANGED stacks
    /\ UNCHANGED <<m_args, response, deletes, rendered, g_pc, g_out,
                   tpl_file, config, render_calls>>
    /\ UNCHANGED <<calls, uploads, queries, stack_events>>
    /\ UNCHANGED <<retryVars, driverVars, tailVars>>

\* cf.py 260-272, 282-283: delete_stack asks unless confirm is set; any answer
\* outside YES ends the process with sys.exit(0).
delete_stack_confirm ==
    /\ m_pc = "start"
    /\ m_args.subcommand = "delete"
    /\ \E r \in (IF m_args.yes THEN {"yes"} ELSE Answers) :
          /\ response' = r
          /\ IF r \in YES
             THEN m_pc' = "delete" /\ UNCHANGED m_exit
             ELSE m_pc' = "exit" /\ m_exit' = 0
    /\ UNCHANGED <<m_args, deletes, rendered, g_pc, g_out,
                   tpl_file, config, render_calls>>
    /\ UNCHANGED <<retryVars, remoteVars, driverVars, tailVars>>

\* cf.py 273-281: client.delete_stack and the answer of the service: the
\* deletion is accepted and starts later, or a ClientError ends the process.
\* main.py 132: without events_follow main ends after the return.
delete_stack_request ==
    /\ m_pc = "delete"
    /\ deletes' = Append(deletes, [StackName |-> m_args.name])
    /\ \E answer \in DeleteAnswers(stacks, m_args.name) :
          IF answer = NoError
          THEN /\ m_pc' = IF m_args.events_follow THEN "print_events" ELSE "exit"
               /\ m_exit' = 0
               /\ UNCHANGED caught
          ELSE /\ m_pc' = "exit"
               /\ m_exit' = DeleteExitCode(answer)
               /\ caught' = answer
    /\ UNCHANGED <<m_args, response, rendered, g_pc, g_out,
                   tpl_file, config, render_calls>>
    /\ UNCHANGED <<args, pc, tpl, metadata, tags, stack_name, disable_rollback,
                   tpl_url, exit_code, ret, runs>>
    /\ UNCHANGED <<retryVars, remoteVars, tailVars>>

\* The service starts a deletion it accepted.
remote_delete_starts ==
    /\ m_pc \in {"print_events", "tailing"}
    /\ deletes # << >>
    /\ \E i \in DOMAIN stacks :
          /\ stacks[i].StackName = deletes[1].StackName
          /\ stacks[i].StackStatus \notin
                IN_PROGRESS_STACK_STATES \cup {"DELETE_COMPLETE", "DELETE_FAILED"}
          /\ stacks' = [stacks EXCEPT ![i].StackStatus = "DELETE_IN_PROGRESS"]
    /\ UNCHANGED <<calls, uploads, queries, stack_events>>
    /\ UNCHANGED <<retryVars, driverVars, tailVars, cliVars>>

\* main.py 117, 125, 133, 138: the call of cf.print_events: create follows
\* from timestamp 0, update and delete from the time of their start, events
\* passes follow and lines.
main_print_events ==
    /\ \/ m_pc = "print_events"
       \/ m_pc = "start" /\ m_args.subcommand = "events"
    /\ \E a \in TailArgs :
          /\ a.follow = m_args.events_follow
          /\ m_args.subcommand # "events" => a.lines = MaxLines
          /\ (a.from_timestamp = 0) <=> (m_args.subcommand \in {"create", "events"})
          /\ targs' = a
    /\ t_pc' = "get_events"
    /\ m_pc' = "tailing"
    /\ UNCHANGED <<events, next_token, status, events_display, seen_ids,
                   printed, t_iter, t_waited, t_ret, t_exit>>
    /\ UNCHANGED <<m_args, m_exit, response, deletes, rendered, g_pc, g_out,
                   tpl_file, config, render_calls>>
    /\ UNCHANGED <<retryVars, remoteVars, driverVars>>

\* main.py 118-119, 126-127, 134-135: the end of the process: the exit of
\* get_events, the traceback of a ClientError nothing caught, or the exit
\* status main derives from the status print_events returned.
main_exit ==
    /\ m_pc = "tailing"
    /\ t_pc \in {"returned", "exit", "raised"}
    /\ m_exit' = IF t_pc = "exit" THEN t_exit
                 ELSE IF t_pc = "raised" THEN 1
                 ELSE MainExitCode(m_args.subcommand, t_ret)
    /\ m_pc' = "exit"
    /\ UNCHANGED <<m_args, response, deletes, rendered, g_pc, g_out,
                   tpl_file, config, render_calls>>
    /\ UNCHANGED <<retryVars, remoteVars, driverVars, tailVars>>

\* The stack of the command line before the process starts.
MainStacks ==
    {<< >>} \cup
    {<<[StackName |-> "a", StackStatus |-> s, Body |-> OldBody]>> :
        s \in {"CREATE_COMPLETE", "ROLLBACK_COMPLETE"}}

InitMain ==
    /\ m_args \in MainArgs
    /\ m_pc = "start"
    /\ m_exit = 0
    /\ response = None
    /\ deletes = << >>
    /\ rendered = NoRendered
    /\ g_pc = "idle"
    /\ g_out = NoOutput
    /\ tpl_file = NoTemplate
    /\ config = {}
    /\ render_calls = 0
    /\ stacks \in MainStacks
    /\ calls = << >>
    /\ uploads = {}
    /\ queries = 0
    /\ stack_events = << >>
    /\ RetryIdle
    /\ DriverIdle
    /\ TailIdle

NextMain ==
    \/ main_create_stack
    \/ delete_stack_confirm
    \/ delete_stack_request
    \/ remote_delete_starts
    \/ main_print_events
    \/ main_exit
    \/ remote_emit
    \/ remote_progress
    \/ TailStep

SpecMain == InitMain /\ [][NextMain]_vars

(***************************************************************************)
(* gen_template (cf.py 39-70): the missing variables, the rendering, the   *)
(* documents of the rendered text                                          *)
(***************************************************************************)

\* The most documents a rendered text holds.
MaxDocs == 3

\* The documents yaml.safe_load_all can yield.
Docs == {"d1", "d2", "d3", "d4"}

\* cf.py 56, 58: json.dumps(doc, indent=2, sort_keys=True).
Dump(d) ==
    IF d = "d1" THEN "json1"
    ELSE IF d = "d2" THEN "json2"
    ELSE IF d = "d3" THEN "json3"
    ELSE "json4"

\* The rendered texts: one the parser rejects, and the streams of 0 to
\* MaxDocs documents.
RenderedTexts ==
    {NoRendered} \cup
    {[parses |-> TRUE, docs |-> ds] :
        ds \in UNION {[1..n -> Docs] : n \in 0..MaxDocs}}

\* cf.py 55-58: what gen_template returns for the list docs.
SplitFirstOnly(docs) == [tpl |-> Dump(docs[1]), metadata |-> None]

Split(docs) ==
    IF Len(docs) = 2 THEN [tpl |-> Dump(docs[2]), metadata |-> docs[1]]
    ELSE [tpl |-> Dump(docs[1]), metadata |-> None]

\* The variable names a template can reference and a config can define;
\* "range" stands for the names of dir(builtins) (cf.py 66).
Names == {"env", "a", "range"}

Builtins == {"range"}

\* The templates (of valid template syntax): the undeclared variables
\* meta.find_undeclared_variables finds in it, and the text it renders to.
TemplateFiles == [required : SUBSET Names, text : RenderedTexts]

Configs == SUBSET Names

\* cf.py 66: required_properties - config.keys() - set(dir(builtins)).
MissingVarsNone(required, keys) == {}

MissingVars(required, keys) == (required \ keys) \ Builtins

\* cf.py 44, 61-70: _check_missing_vars: with a missing property the names
\* are printed and the process ends with sys.exit(1); otherwise gen_template
\* goes on to line 46.
_check_missing_vars ==
    /\ g_pc = "start"
    /\ IF Cardinality(MissingVars(tpl_file.required, config)) > 0
       THEN g_pc' = "exit" /\ m_exit' = 1
       ELSE g_pc' = "render" /\ UNCHANGED m_exit
    /\ UNCHANGED <<m_args, m_pc, response, deletes, rendered, g_out,
                   tpl_file, config, render_calls>>
    /\ UNCHANGED <<retryVars, remoteVars, driverVars, tailVars>>

\* cf.py 46-47: tpl = env.get_template(tpl_fname); rendered =
\* tpl.render(config).
gen_template_render ==
    /\ g_pc = "render"
    /\ rendered' = tpl_file.text
    /\ render_calls' = render_calls + 1
    /\ g_pc' = "parse"
    /\ UNCHANGED <<m_args, m_pc, m_exit, response, deletes, g_out,
                   tpl_file, config>>
    /\ UNCHANGED <<retryVars, remoteVars, driverVars, tailVars>>

\* cf.py 48-58: a ParserError ends the process with sys.exit(1); two
\* documents are metadata and body; for any other number the first document
\* is the body, and docs[0] of an empty list raises IndexError.
gen_template_docs ==
    /\ g_pc = "parse"
    /\ IF ~rendered.parses
       THEN g_pc' = "exit" /\ m_exit' = 1 /\ UNCHANGED g_out
       ELSE IF Len(rendered.docs) = 0
       THEN g_pc' = "raised" /\ UNCHANGED <<g_out, m_exit>>
       ELSE /\ g_pc' = "returned"
            /\ g_out' = Split(rendered.docs)
            /\ UNCHANGED m_exit
    /\ UNCHANGED <<m_args, m_pc, response, deletes, rendered,
                   tpl_file, config, render_calls>>
    /\ UNCHANGED <<retryVars, remoteVars, driverVars, tailVars>>

InitSplit ==
    /\ tpl_file \in TemplateFiles
    /\ config \in Configs
    /\ rendered = NoRendered
    /\ render_calls = 0
    /\ g_pc = "start"
    /\ g_out = NoOutput
    /\ m_args = NoArgs
    /\ m_pc = "idle"
    /\ m_exit = 0
    /\ response = None
    /\ deletes = << >>
    /\ RetryIdle
    /\ RemoteIdle
    /\ DriverIdle
    /\ TailIdle

NextSplit ==
    \/ _check_missing_vars
    \/ gen_template_render
    \/ gen_template_docs

SpecSplit == InitSplit /\ [][NextSplit]_vars

(***************************************************************************)
(* Properties                                                              *)
(***************************************************************************)

\* The calls the service received in the current run of create_stack.
CallsOfRun == {i \in DOMAIN calls : calls[i].run = runs}

\* The body a request submits: inline, or the object its URL points to.
SubmittedBody(c) ==
    IF c.TemplateBody # "absent" THEN c.TemplateBody
    ELSE (CHOOSE u \in uploads : u.key = c.TemplateURL.key).Body

\* The tag entries of the metadata document of the run.
MetadataTagList ==
    IF metadata.present /\ "tags" \in metadata.keys THEN metadata.tags ELSE << >>

\* C1: every create_stack / update_stack request of a run that is no dry run
\* is the one the decision table gives for (mode, exists, create_on_update):
\* create in Create mode, create in Update mode with create_on_update and no
\* live stack (none of that name, or only DELETE_COMPLETE ones), update
\* otherwise; a run that returns has issued exactly one request.
C1_DecisionTable ==
    /\ \A i \in DOMAIN calls :
          /\ ~args.dry
          /\ calls[i].op =
                IF ~args.update THEN "create"
                ELSE IF args.create_on_update /\ ~calls[i].existed THEN "create"
                ELSE "update"
    /\ (pc = "returned" /\ ~args.dry) => Cardinality(CallsOfRun) = 1

\* C1 witness: Update mode with create_on_update found only a tombstone of
\* the stack and issued create.
C1_Witness ==
    /\ args.update /\ args.create_on_update
    /\ \E i \in DOMAIN calls :
          /\ calls[i].op = "create"
          /\ \E j \in DOMAIN stacks :
                /\ stacks[j].StackName = calls[i].StackName
                /\ stacks[j].StackStatus = "DELETE_COMPLETE"

\* C2: the tags of every request hold Env = the configured environment and
\* MD5Sum = the digest of the body the request submits, whatever the metadata
\* lists under these keys; every other key of the metadata is present with the
\* value of its (last) entry, and no other key is added.
C2_ProtectedTags ==
    \A i \in DOMAIN calls :
        LET c == calls[i]
            mt == MetadataTagList
        IN  /\ {"Env", "MD5Sum"} \subseteq DOMAIN c.Tags
            /\ c.Tags["Env"] = ConfigEnv
            /\ c.Tags["MD5Sum"] = Md5(SubmittedBody(c))
            /\ \A j \in DOMAIN mt :
                  mt[j].key \notin {"Env", "MD5Sum"} =>
                      /\ mt[j].key \in DOMAIN c.Tags
                      /\ (\A l \in DOMAIN mt : mt[l].key = mt[j].key => l <= j)
                            => c.Tags[mt[j].key] = mt[j].value
            /\ \A k \in DOMAIN c.Tags \ {"Env", "MD5Sum"} :
                  \E j \in DOMAIN mt : mt[j].key = k

\* C2 witness: a request was issued for metadata that lists both Env and
\* another key.
C2_Witness ==
    /\ Len(calls) > 0
    /\ \E j, l \in DOMAIN MetadataTagList :
          /\ MetadataTagList[j].key = "Env"
          /\ MetadataTagList[l].key = "Test"

\* C3: when a ClientError is caught in create_stack the process exits with 0
\* if the message contains "No updates are to be performed" or "already
\* exists" and with 1 otherwise; a second run after a successful first one
\* never succeeds again, and exits 0 unless the service answers with an error
\* of its own (throttling, access denied).
C3_ExitCodes ==
    /\ (pc = "exit" /\ caught # NoError) =>
          /\ caught \in {ErrAlreadyExists, ErrNoUpdates} => exit_code = 0
          /\ caught \notin {ErrAlreadyExists, ErrNoUpdates} => exit_code = 1
    /\ runs = 2 => pc # "returned"
    /\ (runs = 2 /\ pc = "exit" /\ caught \notin RequestErrors) => exit_code = 0

\* C3 witness: the second update with an unchanged template ended with
\* "No updates are to be performed" and exit code 0.
C3_Witness ==
    /\ runs = 2 /\ pc = "exit" /\ exit_code = 0
    /\ caught = ErrNoUpdates
    /\ args.update

\* C4: the sleeps of one call are 3, 6, 12, 24 in this order, one after each
\* throttled failure while retries <= 3, with retries counting them; a
\* throttling error is re-raised only once retries exceeds 3; a call that
\* succeeds returns the value of that invocation after exactly the sleeps of
\* the failed invocations before it.
C4_BackoffSequence ==
    /\ Len(sleeps) <= 4
    /\ sleeps = SubSeq(<<3, 6, 12, 24>>, 1, Len(sleeps))
    /\ retries = Len(sleeps)
    /\ rt_pc = "call" => Len(attempts) = Len(sleeps)
    /\ (rt_pc = "raised" /\ IsThrottlingCode(rt_err.Code)) =>
          /\ retries = 4
          /\ Len(attempts) = 5
    /\ rt_pc = "returned" =>
          /\ attempts[Len(attempts)].ok
          /\ retval = attempts[Len(attempts)].val
          /\ Len(sleeps) = Len(attempts) - 1
          /\ \A i \in 1..(Len(attempts) - 1) :
                ~attempts[i].ok /\ IsThrottlingCode(attempts[i].err.Code)

\* C4 witness: the call succeeded on the fifth invocation, after all four
\* sleeps.
C4_Witness ==
    /\ rt_func = "func"
    /\ rt_pc = "returned"
    /\ sleeps = <<3, 6, 12, 24>>

ThrottledPrefix(n) ==
    /\ Len(attempts) >= n
    /\ \A i \in 1..n : ~attempts[i].ok /\ IsThrottlingCode(attempts[i].err.Code)

C6_ThrottlingRetried ==
    (/\ pc = "exit"
     /\ IsThrottlingCode(caught.Code)
     /\ CallsOfRun # {})
        => Cardinality(CallsOfRun) > 1

\* C7: in follow mode every row printed has a timestamp not before the
\* cutoff from_timestamp, and no event identifier is printed twice in the
\* session, however often the service returns it.
C7_FollowDedup ==
    targs.follow =>
        \A i \in DOMAIN printed :
            /\ printed[i].Timestamp >= targs.from_timestamp
            /\ \A j \in DOMAIN printed :
                  i # j => printed[i].EventId # printed[j].EventId

\* C7 witness: a follow session that slept and fetched the first page again
\* has ended, having printed an event and left out one before the cutoff.
C7_Witness ==
    /\ targs.follow
    /\ t_pc = "returned"
    /\ t_waited
    /\ Len(printed) >= 1
    /\ \E i \in DOMAIN stack_events :
          stack_events[i].Timestamp < targs.from_timestamp

\* C8 as stated: the rows printed by a follow session hold each identifier
\* once and are in ascending timestamp order as a whole, across pages.
C8_AscendingAcrossPages ==
    targs.follow =>
        \A i, j \in DOMAIN printed :
            i < j => /\ printed[i].EventId # printed[j].EventId
                     /\ printed[i].Timestamp <= printed[j].Timestamp

\* C9 as stated: bounded mode prints the accumulated rows sorted by timestamp
\* as a whole, and of them exactly the most recent `lines` (all, if fewer).
C9_MostRecentLines ==
    (~targs.follow /\ t_pc = "returned") =>
        LET acc == events_display
            n == IF targs.lines < Len(acc) THEN targs.lines ELSE Len(acc)
            shown == {printed[i].EventId : i \in DOMAIN printed}
        IN  /\ Len(printed) = n
            /\ \A i, j \in DOMAIN printed :
                  i < j => printed[i].Timestamp <= printed[j].Timestamp
            /\ \A i \in DOMAIN printed, k \in DOMAIN acc :
                  acc[k].EventId \notin shown =>
                      acc[k].Timestamp <= printed[i].Timestamp

\* The status get_stack_status would return is an in-progress one.
RemoteInProgress ==
    GetStackStatus(stacks, targs.stack_name) \in IN_PROGRESS_STACK_STATES

\* C10: a pass of the follow loop stops exactly when no token remains and the
\* status it read is not in progress, and sleeps, for 5 seconds, exactly when
\* no token remains and the status is in progress; print_events returns the
\* status it read last; and if the stack stays out of the in-progress statuses
\* from some point on, the session ends.
C10_FollowStops ==
    /\ [](targs.follow =>
            /\ t_iter.stopped <=> (t_iter.cursor_none /\ ~t_iter.in_progress)
            /\ t_iter.slept =
                  (IF t_iter.cursor_none /\ t_iter.in_progress THEN 5 ELSE 0)
            /\ t_pc = "returned" <=> t_iter.stopped
            /\ t_pc = "returned" =>
                  t_ret = status /\ t_ret \notin IN_PROGRESS_STACK_STATES)
    /\ (<>[](~RemoteInProgress)) =>
          <>(~targs.follow \/ t_pc \in {"returned", "exit", "raised"})

\* C10 witness: a follow session has slept in some pass and returned in a
\* later one.
C10_Witness ==
    /\ targs.follow
    /\ t_pc = "returned"
    /\ t_waited
    /\ t_iter.stopped
    /\ t_ret = "CREATE_COMPLETE"

\* The name the run must use: the argument when it is a non-empty string, else
\* the name the metadata document declares.
ExpectedName ==
    IF args.stack_name \notin {None, ""} THEN args.stack_name
    ELSE metadata.name

\* C11: every create_stack / update_stack request, every status query and
\* the key of every uploaded template carry the stack name given as argument
\* when that is non-empty, whatever the metadata says, and the name of the
\* metadata when the argument is empty; create_stack returns that name.
C11_ResolvedName ==
    /\ \A i \in DOMAIN calls : calls[i].StackName = ExpectedName
    /\ \A u \in uploads : u.key[2] = ExpectedName
    /\ rt_func = "get_stack_status" => rt_args[2] = ExpectedName
    /\ (pc = "returned" /\ ~args.dry) => ret = ExpectedName

\* C11 witness: a run given the name "a" on a template whose metadata names
\* the stack "b" has uploaded the template, asked for the status and sent its
\* request.
C11_Witness ==
    /\ args.stack_name = "a"
    /\ metadata.name = "b"
    /\ uploads # {}
    /\ queries > 0
    /\ calls # << >>
    /\ calls[Len(calls)].StackName = "a"

\* C12: when neither the argument nor the metadata gives a non-empty name,
\* create_stack ends with sys.exit(1), in every mode and also in a dry run,
\* and the service has seen no status query, no upload and no request.
C12_NoNameIsFatal ==
    (/\ pc \notin {"start", "rendered"}
     /\ args.stack_name \in {None, ""}
     /\ metadata.name = None)
        => /\ pc = "exit"
           /\ exit_code = 1
           /\ calls = << >>
           /\ uploads = {}
           /\ queries = 0
           /\ rt_pc = "idle"

\* C12 witness: a dry run of an update with create_on_update, given the empty
\* string as name, on a template whose metadata has tags but no name, has
\* exited with 1.
C12_Witness ==
    /\ pc = "exit"
    /\ exit_code = 1
    /\ args.stack_name = ""
    /\ args.dry /\ args.update /\ args.create_on_update
    /\ metadata.present
    /\ metadata.keys = {"tags"}
    /\ calls = << >>

\* C13: a request carries the body inline, and no URL, when the body has at
\* most 51200 characters; it carries the URL of the uploaded copy, and no
\* body, when it has 51201 or more, and that copy is in the bucket; a
\* template is uploaded only if the body has more than 51200 characters.
C13_InlineOrUrl ==
    /\ \A i \in DOMAIN calls :
          LET c == calls[i]
          IN  IF TplLen(tpl) <= 51200
              THEN /\ c.TemplateBody = tpl
                   /\ c.TemplateURL = NoUrl
                   /\ uploads = {}
              ELSE /\ TplLen(tpl) >= 51201
                   /\ c.TemplateBody = "absent"
                   /\ c.TemplateURL.bucket = Bucket
                   /\ [key |-> c.TemplateURL.key, Body |-> tpl] \in uploads
    /\ uploads # {} => TplLen(tpl) > 51200

\* C13 witness: two runs, one with a body of 51200 characters sent inline and
\* one with a body of 51201 characters sent by URL, are both reachable; this
\* is the second.
C13_Witness ==
    /\ calls # << >>
    /\ TplLen(tpl) = 51201
    /\ calls[1].TemplateBody = "absent"
    /\ calls[1].TemplateURL # NoUrl
    /\ uploads # {}

\* The other side of the boundary: a body of 51200 characters sent inline.
C13_WitnessInline ==
    /\ calls # << >>
    /\ TplLen(tpl) = 51200
    /\ calls[1].TemplateBody = tpl
    /\ uploads = {}

\* C14: in a dry run, whatever the mode, create_on_update and the size of the
\* body, the service sees nothing: no create or update request, no upload
\* and no status query, and the retry wrapper is never entered.
C14_DryRunIsInert ==
    args.dry =>
        /\ calls = << >>
        /\ uploads = {}
        /\ queries = 0
        /\ rt_pc = "idle"
        /\ stacks \in InitialStacks

\* C14 witness: a dry run of an update with create_on_update on a body above
\* the inline limit has returned.
C14_Witness ==
    /\ args.dry /\ args.update /\ args.create_on_update
    /\ pc = "returned"
    /\ TplLen(tpl) > InlineLimit
    /\ calls = << >>

\* C15 as stated: a dry run reports success whatever the name argument and
\* the metadata are.
C15_DryRunAlwaysSucceeds ==
    (args.dry /\ pc \notin {"start", "rendered"})
        => pc = "returned" /\ ret = "True"

\* C15, amended: a dry run reports success (returns True, no exit) whenever
\* the argument or the metadata gives a non-empty name; without a name it
\* ends with sys.exit(1) like every other run.
C15_DryRunSucceedsWithName ==
    (args.dry /\ pc \notin {"start", "rendered"})
        => IF args.stack_name \notin {None, ""} \/ metadata.name # None
           THEN pc = "returned" /\ ret = "True" /\ exit_code = 0
           ELSE pc = "exit" /\ exit_code = 1

\* C15 witness: a dry run whose name comes from the metadata alone has
\* returned True.
C15_Witness ==
    /\ args.dry
    /\ args.stack_name = None
    /\ metadata.name = "b"
    /\ pc = "returned"
    /\ ret = "True"

\* C16: the service receives a delete_stack request only if --yes was given
\* or the operator answered one of y, Y, yes, YES, Yes; after any other
\* answer the process has ended with status 0 and no request was sent.
C16_DeleteNeedsConsent ==
    /\ deletes # << >> =>
          (m_args.yes \/ response \in {"y", "Y", "yes", "YES", "Yes"})
    /\ (/\ m_args.subcommand = "delete"
        /\ ~m_args.yes
        /\ response \notin {None, "y", "Y", "yes", "YES", "Yes"})
          => /\ m_pc = "exit"
             /\ m_exit = 0
             /\ deletes = << >>
             /\ t_pc = "idle"

\* C16 witness: the operator of a followed delete just pressed return, and
\* the process has ended.
C16_Witness ==
    /\ m_args.subcommand = "delete"
    /\ m_args.events_follow
    /\ response = ""
    /\ m_pc = "exit"
    /\ deletes = << >>

\* The ClientError says that the stack does not exist.
SaysDoesNotExist(err) ==
    \E i \in 1..(Len(err.Message) - 2) :
        /\ err.Message[i] = "does"
        /\ err.Message[i + 1] = "not"
        /\ err.Message[i + 2] = "exist"

\* C17: when delete_stack's request fails, the process exits 0 if the
\* message says the stack does not exist and 1 otherwise; when the request of
\* get_events fails, likewise.
C17_DoesNotExistIsBenign ==
    /\ (m_args.subcommand = "delete" /\ m_pc = "exit" /\ t_pc = "idle"
            /\ caught # NoError)
          => m_exit = (IF SaysDoesNotExist(caught) THEN 0 ELSE 1)
    /\ t_pc = "exit"
          => /\ caught # NoError
             /\ t_exit = (IF SaysDoesNotExist(caught) THEN 0 ELSE 1)
             /\ m_pc = "exit" => m_exit = t_exit

\* C17 witness: a delete of a stack the service does not know has ended with
\* status 0 after its request.
C17_Witness ==
    /\ m_args.subcommand = "delete"
    /\ m_pc = "exit"
    /\ deletes # << >>
    /\ caught = ErrDoesNotExist
    /\ m_exit = 0

\* The same for get_events: the events of a stack that does not exist.
C17_WitnessEvents ==
    /\ m_args.subcommand = "events"
    /\ m_pc = "exit"
    /\ t_pc = "exit"
    /\ caught = ErrDoesNotExist
    /\ m_exit = 0

\* C18 as stated: after a followed create, update or delete, the process
\* exits with 1 whenever the status print_events returned is a failed or a
\* rollback status.
C18_FailedOrRollbackExits1 ==
    (/\ m_pc = "exit"
     /\ t_pc = "returned"
     /\ m_args.subcommand \in {"create", "update", "delete"}
     /\ t_ret \in FAILED_STACK_STATES \cup ROLLBACK_STACK_STATES)
        => m_exit = 1

\* What the code does hold to: create and update exit with 1 on both
\* classes, delete on the failed statuses only.
C18_ExceptDeleteRollback ==
    (/\ m_pc = "exit"
     /\ t_pc = "returned"
     /\ m_args.subcommand \in {"create", "update", "delete"})
        => (m_exit = 1 <=>
               \/ t_ret \in FAILED_STACK_STATES
               \/ /\ t_ret \in ROLLBACK_STACK_STATES
                  /\ m_args.subcommand # "delete")

\* C19: an invocation that fails with an error other than the two throttling
\* codes is the last one: the wrapper raises that error, no sleep follows it
\* and nothing is retried, whether it is the first invocation or comes after
\* throttled ones.
C19_OtherErrorsPropagate ==
    \A i \in DOMAIN attempts :
        (/\ ~attempts[i].ok
         /\ attempts[i].err.Code \notin {"Throttling", "RequestLimitExceeded"})
            => /\ i = Len(attempts)
               /\ rt_pc = "raised"
               /\ rt_err = attempts[i].err
               /\ Len(sleeps) = i - 1
               /\ retries = i - 1

\* C19 witness: after two throttled invocations the third failed with
\* AccessDenied and was re-raised.
C19_Witness ==
    /\ rt_func = "func"
    /\ rt_pc = "raised"
    /\ rt_err = ErrAccessDenied
    /\ Len(attempts) = 3
    /\ sleeps = <<3, 6>>

\* C20 as stated: gen_template returns the body alone for one document and
\* metadata and body for two; for any other number of documents it fails and
\* returns neither.
C20_OtherCountsAreFatal ==
    (g_pc \in {"exit", "raised", "returned"} /\ rendered.parses) =>
        LET docs == rendered.docs
        IN  IF Len(docs) = 1
            THEN g_pc = "returned"
                 /\ g_out = [tpl |-> Dump(docs[1]), metadata |-> None]
            ELSE IF Len(docs) = 2
            THEN g_pc = "returned"
                 /\ g_out = [tpl |-> Dump(docs[2]), metadata |-> docs[1]]
            ELSE g_pc \in {"exit", "raised"} /\ g_out = NoOutput

\* What the code does: an empty stream raises; three documents or more are
\* accepted, and the first of them is returned as the body, without metadata.
C20_FirstDocumentIsBody ==
    (g_pc \in {"exit", "raised", "returned"} /\ rendered.parses) =>
        LET docs == rendered.docs
        IN  IF Len(docs) = 0 THEN g_pc = "raised" /\ g_out = NoOutput
            ELSE IF Len(docs) = 2
            THEN g_pc = "returned"
                 /\ g_out = [tpl |-> Dump(docs[2]), metadata |-> docs[1]]
            ELSE g_pc = "returned"
                 /\ g_out = [tpl |-> Dump(docs[1]), metadata |-> None]

\* C23 as stated: every invocation of the wrapped function, the first and
\* each retry, gets exactly the positional and the keyword arguments
\* retry_call was called with.
C23_SameArguments ==
    \A i \in DOMAIN invoked :
        invoked[i] = [args |-> rt_args, kwargs |-> rt_kwargs]

\* What the code does: every invocation gets the positional arguments, and
\* no keyword argument.
C23_PositionalOnly ==
    /\ Len(invoked) = Len(attempts)
    /\ \A i \in DOMAIN invoked :
          invoked[i] = [args |-> rt_args, kwargs |-> {}]

\* The arguments of a request other than the body or URL parameter: the
\* operation, the name, the tags, the capabilities and whether
\* DisableRollback is passed.
NonTransport(r) ==
    [op |-> r.op, StackName |-> r.StackName, Tags |-> r.Tags,
     Capabilities |-> r.Capabilities,
     PassesDisableRollback |-> r.DisableRollback # "absent"]

\* C22 as stated: every request of the run has the same operation and the
\* same arguments, the body or URL parameter aside, as the request the other
\* transport issues for the same mode, existence, create_on_update and
\* metadata.
C22_TransportIsTransparent ==
    \A i \in CallsOfRun :
        LET c == calls[i]
            inline == c.TemplateURL = NoUrl
        IN  NonTransport(c) = NonTransport(Request(c.op, ~inline))

\* C24 as stated: when a follow session returns, every event the stack
\* emitted while in progress, with a timestamp at or after the cutoff, has
\* been printed.
C24_FollowLosesNoEvent ==
    (targs.follow /\ t_pc = "returned") =>
        \A i \in DOMAIN stack_events :
            stack_events[i].Timestamp >= targs.from_timestamp =>
                \E j \in DOMAIN printed :
                    printed[j].EventId = stack_events[i].EventId

\* C21: whenever the names the template references, minus the keys of the
\* config, minus the builtin names, is a non-empty set, gen_template ends
\* with exit code 1 at the check and the render step has never been
\* executed; the render step is reached and executed only with an empty
\* missing set.
C21_NoRenderWithMissingVars ==
    LET missing == (tpl_file.required \ config) \ Builtins
    IN  /\ missing # {} =>
              /\ render_calls = 0
              /\ rendered = NoRendered
              /\ g_out = NoOutput
              /\ g_pc \in {"idle", "start", "exit"}
              /\ g_pc = "exit" => m_exit = 1
        /\ (g_pc \in {"render", "parse"} \/ render_calls > 0) => missing = {}
        /\ render_calls > 0 => g_pc \in {"parse", "exit", "raised", "returned"}

\* C21 witness: a template that references a builtin and a name the config
\* does not define has ended the process with 1, nothing rendered.
C21_Witness ==
    /\ g_pc = "exit"
    /\ m_exit = 1
    /\ "range" \in tpl_file.required
    /\ config # {}
    /\ (tpl_file.required \ config) \ Builtins # {}
    /\ tpl_file.text.parses
    /\ render_calls = 0

\* The other side: with every referenced name defined or builtin the
\* template has been rendered once.
C21_WitnessRendered ==
    /\ g_pc = "returned"
    /\ tpl_file.required = {"env", "range"}
    /\ config = {"env"}
    /\ render_calls = 1

=============================================================================
